---------------------------- MODULE Spec2Model ----------------------------
(***************************************************************************)
(* Model of src/main.py: one HTTP GET against the Codacy API, three        *)
(* prints of the response, and the re-serialized body written to           *)
(* temp.json.                                                              *)
(*                                                                         *)
(* Text (a response body, the content of temp.json) is a sequence of       *)
(* characters; a character is a one-character string, except the           *)
(* non-ASCII character e-acute, which is written "U+00E9".                 *)
(*                                                                         *)
(* A decoded JSON value is a record with the same five fields for every    *)
(* kind of value:                                                          *)
(*    t    : "null" | "true" | "false" | "int" | "str" | "arr" | "obj"     *)
(*    n    : the integer (kind "int"), else 0                              *)
(*    s    : the characters (kind "str"), else << >>                       *)
(*    keys : the keys in insertion order (kind "obj"), else << >>          *)
(*    kids : the elements ("arr") or the values by key ("obj")             *)
(* The JSON subset modelled: null, true, false, integers, strings with     *)
(* the escapes of Unescape and of UnicodeEscapes, arrays, objects,         *)
(* insignificant white space.                                              *)
(***************************************************************************)
EXTENDS Integers, Sequences, FiniteSets, TLC

VARIABLES
    pc,        \* index in Program of the next statement to execute
    phase,     \* "running" | "raising" (uncaught exception) | "exited"
    outcome,   \* "none" | "success" (exit code 0) | "aborted" (traceback)
    r,         \* the response object bound at line 12
    stdout,    \* the print calls made so far by this run, in order
    events,    \* the statements this run has completed, in order
    requests,  \* number of HTTP requests this run has sent
    getFailed, \* the GET of this run raised a transport error
    ioFault,   \* line 22 of this run raised after the file was opened
    disk,      \* temp.json in the working directory
    prior,     \* temp.json as it was when this run started
    f,         \* the file object bound at line 20
    run,       \* number of the current run of the script
    last       \* what the previous run received and left behind

vars == << pc, phase, outcome, r, stdout, events, requests, getFailed,
           ioFault, disk, prior, f, run, last >>

-----------------------------------------------------------------------------
(* Bounds *)

MaxRuns == 2

-----------------------------------------------------------------------------
(* Sequences of characters *)

Digits == << "0", "1", "2", "3", "4", "5", "6", "7", "8", "9" >>

IsDigit(c) == \E k \in 1..Len(Digits) : Digits[k] = c

DigitVal(c) == (CHOOSE k \in 1..Len(Digits) : Digits[k] = c) - 1

IsWs(c) == c \in { " ", "\n", "\t", "\r" }

IsPrefix(a, b) == Len(a) <= Len(b) /\ SubSeq(b, 1, Len(a)) = a

IsStrictPrefix(a, b) == Len(a) < Len(b) /\ SubSeq(b, 1, Len(a)) = a

StartsAt(t, i, w) ==
    /\ i + Len(w) - 1 <= Len(t)
    /\ SubSeq(t, i, i + Len(w) - 1) = w

RECURSIVE Spaces(_)
Spaces(k) == IF k <= 0 THEN << >> ELSE << " " >> \o Spaces(k - 1)

-----------------------------------------------------------------------------
(* Decoded JSON values *)

JNull == [t |-> "null", n |-> 0, s |-> << >>, keys |-> << >>, kids |-> << >>]

JLit(w) == [JNull EXCEPT !.t = w]

JInt(k) == [JNull EXCEPT !.t = "int", !.n = k]

JStr(cs) == [JNull EXCEPT !.t = "str", !.s = cs]

JArr(vs) == [JNull EXCEPT !.t = "arr", !.kids = vs]

JObj(ks, vs) == [JNull EXCEPT !.t = "obj", !.keys = ks, !.kids = vs]

\* dict[key] = value: a repeated key keeps its first position and takes the
\* last value.
DictSet(o, key, v) ==
    IF \E k \in 1..Len(o.keys) : o.keys[k] = key
    THEN LET k == CHOOSE j \in 1..Len(o.keys) : o.keys[j] = key
         IN  [o EXCEPT !.kids[k] = v]
    ELSE [o EXCEPT !.keys = Append(@, key), !.kids = Append(@, v)]

-----------------------------------------------------------------------------
(* json decoding, as r.json() does it *)

Fail == [ok |-> FALSE, val |-> JNull, pos |-> 0]

Got(v, i) == [ok |-> TRUE, val |-> v, pos |-> i]

RECURSIVE SkipWs(_, _)
SkipWs(t, i) == IF i <= Len(t) /\ IsWs(t[i]) THEN SkipWs(t, i + 1) ELSE i

\* The character after a backslash, and the character it stands for.
Unescape ==
    [c \in { "\"", "\\", "/", "n", "t", "r" } |->
        CASE c = "n" -> "\n"
          [] c = "t" -> "\t"
          [] c = "r" -> "\r"
          [] OTHER   -> c]

\* The \uXXXX escapes the model knows, and the character each stands for.
UnicodeEscapes ==
    { << << "0", "0", "e", "9" >>, "U+00E9" >>,
      << << "0", "0", "E", "9" >>, "U+00E9" >>,
      << << "0", "0", "4", "1" >>, "A" >> }

RECURSIVE ParseString(_, _, _)
ParseString(t, i, acc) ==
    IF i > Len(t) THEN Fail
    ELSE IF t[i] = "\"" THEN Got(JStr(acc), i + 1)
    ELSE IF t[i] = "\\" THEN
        IF i + 1 > Len(t) THEN Fail
        ELSE IF t[i + 1] \in DOMAIN Unescape
             THEN ParseString(t, i + 2, Append(acc, Unescape[t[i + 1]]))
        ELSE IF t[i + 1] = "u" /\ i + 5 <= Len(t)
                /\ \E e \in UnicodeEscapes : e[1] = SubSeq(t, i + 2, i + 5)
             THEN LET e == CHOOSE x \in UnicodeEscapes :
                                x[1] = SubSeq(t, i + 2, i + 5)
                  IN  ParseString(t, i + 6, Append(acc, e[2]))
        ELSE Fail
    ELSE IF t[i] \in { "\n", "\t", "\r" } THEN Fail
    ELSE ParseString(t, i + 1, Append(acc, t[i]))

RECURSIVE ParseDigits(_, _, _)
ParseDigits(t, i, acc) ==
    IF i <= Len(t) /\ IsDigit(t[i])
    THEN ParseDigits(t, i + 1, 10 * acc + DigitVal(t[i]))
    ELSE Got(JInt(acc), i)

\* -?(0|[1-9][0-9]*) starting at i
ParseInt(t, i) ==
    LET neg == t[i] = "-"
        j   == IF neg THEN i + 1 ELSE i
    IN  IF j > Len(t) \/ ~IsDigit(t[j]) THEN Fail
        ELSE LET m == IF t[j] = "0" THEN Got(JInt(0), j + 1)
                      ELSE ParseDigits(t, j, 0)
             IN  IF neg THEN Got(JInt(0 - m.val.n), m.pos) ELSE m

RECURSIVE ParseValue(_, _)
RECURSIVE ParseElements(_, _, _)
RECURSIVE ParseMembers(_, _, _)

\* i is at the first character of a value
ParseValue(t, i) ==
    IF i > Len(t) THEN Fail
    ELSE IF t[i] = "\"" THEN ParseString(t, i + 1, << >>)
    ELSE IF t[i] = "{" THEN
        LET j == SkipWs(t, i + 1)
        IN  IF j <= Len(t) /\ t[j] = "}" THEN Got(JObj(<< >>, << >>), j + 1)
            ELSE ParseMembers(t, j, JObj(<< >>, << >>))
    ELSE IF t[i] = "[" THEN
        LET j == SkipWs(t, i + 1)
        IN  IF j <= Len(t) /\ t[j] = "]" THEN Got(JArr(<< >>), j + 1)
            ELSE ParseElements(t, j, << >>)
    ELSE IF StartsAt(t, i, << "n", "u", "l", "l" >>) THEN Got(JNull, i + 4)
    ELSE IF StartsAt(t, i, << "t", "r", "u", "e" >>)
         THEN Got(JLit("true"), i + 4)
    ELSE IF StartsAt(t, i, << "f", "a", "l", "s", "e" >>)
         THEN Got(JLit("false"), i + 5)
    ELSE IF t[i] = "-" \/ IsDigit(t[i]) THEN ParseInt(t, i)
    ELSE Fail

\* i is at the first character of an element; acc holds the elements so far
ParseElements(t, i, acc) ==
    LET e == ParseValue(t, i)
    IN  IF ~e.ok THEN Fail
        ELSE LET j == SkipWs(t, e.pos)
             IN  IF j > Len(t) THEN Fail
                 ELSE IF t[j] = "]" THEN Got(JArr(Append(acc, e.val)), j + 1)
                 ELSE IF t[j] = ","
                      THEN ParseElements(t, SkipWs(t, j + 1),
                                         Append(acc, e.val))
                 ELSE Fail

\* i is at the opening quote of a key; o holds the members so far
ParseMembers(t, i, o) ==
    IF i > Len(t) \/ t[i] # "\"" THEN Fail
    ELSE LET k == ParseString(t, i + 1, << >>)
         IN  IF ~k.ok THEN Fail
             ELSE LET c == SkipWs(t, k.pos)
                  IN  IF c > Len(t) \/ t[c] # ":" THEN Fail
                      ELSE LET v == ParseValue(t, SkipWs(t, c + 1))
                           IN  IF ~v.ok THEN Fail
                               ELSE LET j  == SkipWs(t, v.pos)
                                        o2 == DictSet(o, k.val.s, v.val)
                                    IN  IF j > Len(t) THEN Fail
                                        ELSE IF t[j] = "}" THEN Got(o2, j + 1)
                                        ELSE IF t[j] = ","
                                             THEN ParseMembers(
                                                    t, SkipWs(t, j + 1), o2)
                                        ELSE Fail

\* json.loads(text): one value, white space around it, nothing else
Loads(t) ==
    LET v == ParseValue(t, SkipWs(t, 1))
    IN  IF v.ok /\ SkipWs(t, v.pos) = Len(t) + 1 THEN v ELSE Fail

-----------------------------------------------------------------------------
(* json encoding, as json.dumps(value, indent=4) does it *)

IndentWidth == 4

\* ensure_ascii=True: what a character of a string is written as
EscapeOf(c) ==
    CASE c = "\""     -> << "\\", "\"" >>
      [] c = "\\"     -> << "\\", "\\" >>
      [] c = "\n"     -> << "\\", "n" >>
      [] c = "\t"     -> << "\\", "t" >>
      [] c = "\r"     -> << "\\", "r" >>
      [] c = "U+00E9" -> << "\\", "u", "0", "0", "e", "9" >>
      [] OTHER        -> << c >>

RECURSIVE EscapeAll(_)
EscapeAll(cs) ==
    IF cs = << >> THEN << >> ELSE EscapeOf(Head(cs)) \o EscapeAll(Tail(cs))

Quoted(cs) == << "\"" >> \o EscapeAll(cs) \o << "\"" >>

RECURSIVE NatText(_)
NatText(k) ==
    IF k < 10 THEN << Digits[k + 1] >>
    ELSE NatText(k \div 10) \o << Digits[(k % 10) + 1] >>

IntText(k) == IF k < 0 THEN << "-" >> \o NatText(0 - k) ELSE NatText(k)

\* indent=2
NewLineTwo(level) == << "\n" >> \o Spaces(2 * level)

\* the line break and the indentation in front of an item at `level`
NewLine(level) == << "\n" >> \o Spaces(IndentWidth * level)

RECURSIVE Dumps(_, _)
RECURSIVE DumpItems(_, _, _)

\* items k..Len of a container at nesting level `level`, each on its own line
DumpItems(v, k, level) ==
    IF k > Len(v.kids) THEN << >>
    ELSE NewLine(level + 1)
         \o (IF v.t = "obj" THEN Quoted(v.keys[k]) \o << ":", " " >>
             ELSE << >>)
         \o Dumps(v.kids[k], level + 1)
         \o (IF k < Len(v.kids) THEN << "," >> ELSE << >>)
         \o DumpItems(v, k + 1, level)

Dumps(v, level) ==
    CASE v.t = "null"  -> << "n", "u", "l", "l" >>
      [] v.t = "true"  -> << "t", "r", "u", "e" >>
      [] v.t = "false" -> << "f", "a", "l", "s", "e" >>
      [] v.t = "int"   -> IntText(v.n)
      [] v.t = "str"   -> Quoted(v.s)
      [] v.t = "arr"   ->
            IF v.kids = << >> THEN << "[", "]" >>
            ELSE << "[" >> \o DumpItems(v, 1, level)
                 \o NewLine(level) \o << "]" >>
      [] v.t = "obj"   ->
            IF v.kids = << >> THEN << "{", "}" >>
            ELSE << "{" >> \o DumpItems(v, 1, level)
                 \o NewLine(level) \o << "}" >>

-----------------------------------------------------------------------------
(* What the server may answer *)

StatusCodes == { 200, 401 }

\* a listing of repositories:  {"data":[{"id":1}]}
BodyRepos ==
    << "{", "\"", "d", "a", "t", "a", "\"", ":", "[", "{", "\"", "i", "d",
       "\"", ":", "1", "}", "]", "}" >>

\* the error payload sent with a 401:  {"error":"unauthorized"}
BodyUnauthorized ==
    << "{", "\"", "e", "r", "r", "o", "r", "\"", ":", "\"", "u", "n", "a",
       "u", "t", "h", "o", "r", "i", "z", "e", "d", "\"", "}" >>

\* keys not in alphabetical order, a negative zero:  {"b":[true,null],"a":-0}
BodyKeyOrder ==
    << "{", "\"", "b", "\"", ":", "[", "t", "r", "u", "e", ",", "n", "u",
       "l", "l", "]", ",", "\"", "a", "\"", ":", "-", "0", "}" >>

\* a repeated key, white space:   {"a":1 ,"a":2}
BodyRepeatedKey ==
    << " ", "{", "\"", "a", "\"", ":", "1", " ", ",", "\"", "a", "\"", ":",
       "2", "}" >>

\* a string of two escapes:  a backslash-u escape of e-acute, then backslash-solidus
BodyEscapes ==
    << "\"", "\\", "u", "0", "0", "E", "9", "\\", "/", "\"" >>

\* an empty array:  []
BodyEmptyList ==
    << "[", "]" >>

\* not JSON:  not json
BodyNotJson ==
    << "n", "o", "t", " ", "j", "s", "o", "n" >>

\* an empty body
BodyEmpty ==
    << >>

\* not JSON: a trailing comma:  {"a":1,}
BodyTrailingComma ==
    << "{", "\"", "a", "\"", ":", "1", ",", "}" >>

Bodies ==
    { BodyRepos,
      BodyUnauthorized,
      BodyKeyOrder,
      BodyRepeatedKey,
      BodyEscapes,
      BodyEmptyList,
      BodyNotJson,
      BodyEmpty,
      BodyTrailingComma }

-----------------------------------------------------------------------------
(* The file system and the file object *)

NoFile == [exists |-> FALSE, data |-> << >>]

\* what a run may find at temp.json when it starts for the first time
InitialFiles ==
    { NoFile,
      [exists |-> TRUE, data |-> << "o", "l", "d" >>],
      [exists |-> TRUE, data |-> Dumps(Loads(BodyUnauthorized).val, 0)] }

NoHandle == [state |-> "none", pos |-> 0, buf |-> << >>]

\* open(path, 'a'): the content is kept and writes go to its end
OpenForAppend(file) ==
    [file |-> [exists |-> TRUE, data |-> file.data], pos |-> Len(file.data)]

\* the content is kept and writes start at offset 0 (no O_TRUNC)
OpenForUpdate(file) ==
    [file |-> [exists |-> TRUE, data |-> file.data], pos |-> 0]

\* open(path, 'w'): the file is created or truncated, writes start at offset 0
OpenForWrite(file) ==
    [file |-> [exists |-> TRUE, data |-> << >>], pos |-> 0]

\* the file after `buf` is written at offset `pos`
WriteAt(file, pos, buf) ==
    [exists |-> TRUE,
     data   |-> SubSeq(file.data, 1, pos) \o buf
                \o SubSeq(file.data, pos + Len(buf) + 1, Len(file.data))]

-----------------------------------------------------------------------------
(* The script *)

ProgramOpenFirst ==
    << "open", "get", "print_status", "print_text", "print_json", "write" >>

ProgramOpenBeforeDecode ==
    << "get", "print_status", "print_text", "open", "print_json", "write" >>

ProgramTextFirst ==
    << "get", "print_text", "print_status", "print_json", "open", "write" >>

\* the statements of the module in the order they are executed
Program ==
    << "get", "print_status", "print_text", "print_json", "open", "write" >>

NoResponse == [status_code |-> 0, text |-> << >>]

Printed(kind, code, text, val) ==
    [kind |-> kind, code |-> code, text |-> text, val |-> val]

\* raise_for_status() before decoding
JsonOkOnly2xx(resp) ==
    resp.status_code \in 200..299 /\ Loads(resp.text).ok

\* r.json() returns (it raises otherwise)
JsonOk(resp) == Loads(resp.text).ok

\* r.json()
Json(resp) == Loads(resp.text).val

\* json.dumps(r.json(), indent=4)
WriteText(resp) == Dumps(Json(resp), 0)

NoLast == [outcome |-> "none", text |-> << >>]

Init ==
    /\ pc = 1
    /\ phase = "running"
    /\ outcome = "none"
    /\ r = NoResponse
    /\ stdout = << >>
    /\ events = << >>
    /\ requests = 0
    /\ getFailed = FALSE
    /\ ioFault = FALSE
    /\ disk \in InitialFiles
    /\ prior = disk
    /\ f = NoHandle
    /\ run = 1
    /\ last = NoLast

At(stmt) == phase = "running" /\ pc <= Len(Program) /\ Program[pc] = stmt

Advance(stmt) == pc' = pc + 1 /\ events' = Append(events, stmt)

Raise == phase' = "raising" /\ UNCHANGED << pc, events >>

\* line 12: requests.get(...) returns a response
HttpGetOk ==
    /\ At("get")
    /\ \E s \in StatusCodes, b \in Bodies :
          r' = [status_code |-> s, text |-> b]
    /\ requests' = requests + 1
    /\ Advance("get")
    /\ UNCHANGED << phase, outcome, stdout, getFailed, ioFault, disk, prior,
                    f, run, last >>

\* a failed request is sent again
HttpGetFailsRetry ==
    /\ At("get")
    /\ requests < 3
    /\ requests' = requests + 1
    /\ getFailed' = TRUE
    /\ UNCHANGED << pc, phase, events, outcome, r, stdout, ioFault, disk,
                    prior, f, run, last >>

\* line 12: requests.get(...) raises (connection, timeout, TLS)
HttpGetFails ==
    /\ At("get")
    /\ requests' = requests + 1
    /\ getFailed' = TRUE
    /\ Raise
    /\ UNCHANGED << outcome, r, stdout, ioFault, disk, prior, f, run, last >>

\* line 14: print(r.status_code)
PrintStatus ==
    /\ At("print_status")
    /\ stdout' = Append(stdout,
                        Printed("status_code", r.status_code, << >>, JNull))
    /\ Advance("print_status")
    /\ UNCHANGED << phase, outcome, r, requests, getFailed, ioFault, disk,
                    prior, f, run, last >>

\* line 16: print(r.text)
PrintText ==
    /\ At("print_text")
    /\ stdout' = Append(stdout, Printed("text", 0, r.text, JNull))
    /\ Advance("print_text")
    /\ UNCHANGED << phase, outcome, r, requests, getFailed, ioFault, disk,
                    prior, f, run, last >>

\* line 18: print(r.json())
PrintJson ==
    /\ At("print_json")
    /\ JsonOk(r)
    /\ stdout' = Append(stdout, Printed("json", 0, << >>, Json(r)))
    /\ Advance("print_json")
    /\ UNCHANGED << phase, outcome, r, requests, getFailed, ioFault, disk,
                    prior, f, run, last >>

\* line 18: r.json() raises, the body is not JSON
PrintJsonFails ==
    /\ At("print_json")
    /\ ~JsonOk(r)
    /\ Raise
    /\ UNCHANGED << outcome, r, stdout, requests, getFailed, ioFault, disk,
                    prior, f, run, last >>

\* line 20: f = open('temp.json', 'w')
OpenFile ==
    /\ At("open")
    /\ LET o == OpenForWrite(disk)
       IN  /\ disk' = o.file
           /\ f' = [state |-> "open", pos |-> o.pos, buf |-> << >>]
    /\ Advance("open")
    /\ UNCHANGED << phase, outcome, r, stdout, requests, getFailed, ioFault,
                    prior, run, last >>

\* line 22: f.write(json.dumps(r.json(), indent=4)); the text goes to the
\* buffer of the file object
Write ==
    /\ At("write")
    /\ f' = [f EXCEPT !.buf = @ \o WriteText(r)]
    /\ Advance("write")
    /\ UNCHANGED << phase, outcome, r, stdout, requests, getFailed, ioFault,
                    disk, prior, run, last >>

\* line 22 raises (out of memory while decoding or serializing, an I/O error
\* in the write) when k characters of the text have reached the file
WriteFails ==
    /\ At("write")
    /\ \E k \in 0..(Len(WriteText(r)) - 1) :
          disk' = WriteAt(disk, f.pos, SubSeq(WriteText(r), 1, k))
    /\ ioFault' = TRUE
    /\ Raise
    /\ UNCHANGED << outcome, r, stdout, requests, getFailed, prior, f, run,
                    last >>

\* The interpreter shuts down, after the last statement or on an uncaught
\* exception: the file object, which the script never closes, is finalized,
\* which flushes its buffer and closes it.
Exit ==
    /\ \/ phase = "raising"
       \/ phase = "running" /\ pc > Len(Program)
    /\ phase' = "exited"
    /\ outcome' = IF phase = "raising" THEN "aborted" ELSE "success"
    /\ IF f.state = "open"
       THEN /\ disk' = IF f.buf = << >> THEN disk
                       ELSE WriteAt(disk, f.pos, f.buf)
            /\ f' = [state |-> "closed", pos |-> f.pos + Len(f.buf),
                     buf |-> << >>]
       ELSE UNCHANGED << disk, f >>
    /\ UNCHANGED << pc, r, stdout, events, requests, getFailed, ioFault,
                    prior, run, last >>

\* the script is started again in the same directory
Rerun ==
    /\ phase = "exited"
    /\ run < MaxRuns
    /\ run' = run + 1
    /\ last' = [outcome |-> outcome, text |-> r.text]
    /\ prior' = disk
    /\ pc' = 1
    /\ phase' = "running"
    /\ outcome' = "none"
    /\ r' = NoResponse
    /\ stdout' = << >>
    /\ events' = << >>
    /\ requests' = 0
    /\ getFailed' = FALSE
    /\ ioFault' = FALSE
    /\ f' = NoHandle
    /\ UNCHANGED disk

Next ==
    \/ HttpGetOk
    \/ HttpGetFails
    \/ PrintStatus
    \/ PrintText
    \/ PrintJson
    \/ PrintJsonFails
    \/ OpenFile
    \/ Write
    \/ WriteFails
    \/ Exit
    \/ Rerun

Spec == Init /\ [][Next]_vars

-----------------------------------------------------------------------------
(* Properties *)

FullRun ==
    << "get", "print_status", "print_text", "print_json", "open", "write" >>

PrintKinds == [k \in 1..Len(stdout) |-> stdout[k].kind]

Exited == phase = "exited"

Succeeded == phase = "exited" /\ outcome = "success"

\* the response of this run has arrived and its body is not JSON
BadBody == requests = 1 /\ ~getFailed /\ pc > 1 /\ ~Loads(r.text).ok

\* a line break followed by exactly 4 * d spaces starts at i
LineBreakAt(t, i, d) ==
    /\ StartsAt(t, i, << "\n" >> \o Spaces(4 * d))
    /\ i + 4 * d + 1 <= Len(t)
    /\ ~IsWs(t[i + 4 * d + 1])

\* The text from i on is laid out as a pretty-printer with an indentation of
\* 4 lays it out: every item of a non-empty container on a line of its own,
\* indented by 4 spaces per level of nesting, the closing bracket on a line
\* of its own, one space after a colon, and no other white space.
RECURSIVE LayoutOk(_, _, _, _)
LayoutOk(t, i, depth, inStr) ==
    IF i > Len(t) THEN depth = 0 /\ ~inStr
    ELSE IF inStr THEN
        IF t[i] = "\\" THEN LayoutOk(t, i + 2, depth, TRUE)
        ELSE LayoutOk(t, i + 1, depth, t[i] # "\"")
    ELSE IF t[i] = "\"" THEN LayoutOk(t, i + 1, depth, TRUE)
    ELSE IF t[i] \in { "{", "[" } THEN
        IF i < Len(t) /\ t[i + 1] \in { "}", "]" }
        THEN LayoutOk(t, i + 2, depth, FALSE)
        ELSE /\ LineBreakAt(t, i + 1, depth + 1)
             /\ LayoutOk(t, i + 2 + 4 * (depth + 1), depth + 1, FALSE)
    ELSE IF t[i] = "," THEN
        /\ LineBreakAt(t, i + 1, depth)
        /\ LayoutOk(t, i + 2 + 4 * depth, depth, FALSE)
    ELSE IF t[i] = "\n" THEN
        /\ depth >= 1
        /\ LineBreakAt(t, i, depth - 1)
        /\ t[i + 1 + 4 * (depth - 1)] \in { "}", "]" }
        /\ LayoutOk(t, i + 1 + 4 * (depth - 1), depth, FALSE)
    ELSE IF t[i] \in { "}", "]" } THEN
        /\ depth >= 1
        /\ i - 1 - 4 * (depth - 1) >= 1
        /\ StartsAt(t, i - 1 - 4 * (depth - 1),
                    << "\n" >> \o Spaces(4 * (depth - 1)))
        /\ LayoutOk(t, i + 1, depth - 1, FALSE)
    ELSE IF t[i] = ":" THEN
        /\ i + 2 <= Len(t)
        /\ t[i + 1] = " "
        /\ ~IsWs(t[i + 2])
        /\ LayoutOk(t, i + 2, depth, FALSE)
    ELSE IF IsWs(t[i]) THEN FALSE
    ELSE LayoutOk(t, i + 1, depth, FALSE)

\* C1: once the GET has raised a transport error, nothing has been printed,
\* temp.json has not been opened and holds what it held before the run, and
\* the run does not end in success.
C1_TransportFailureLeavesNoTrace ==
    getFailed =>
        /\ stdout = << >>
        /\ f.state = "none"
        /\ disk = prior
        /\ outcome # "success"

C1_Witness ==
    getFailed /\ Exited /\ prior.exists /\ prior.data # << >>

\* C2: when the body of the response is not JSON, the decoded body is never
\* printed, temp.json is never opened and keeps its content, and the run
\* ends aborted with the status code and the raw text printed, in that order.
C2_DecodeErrorAbortsBeforeFile ==
    BadBody =>
        /\ \A k \in 1..Len(stdout) : stdout[k].kind # "json"
        /\ f.state = "none"
        /\ disk = prior
        /\ outcome # "success"
        /\ Exited =>
             /\ outcome = "aborted"
             /\ stdout = << Printed("status_code", r.status_code, << >>, JNull),
                            Printed("text", 0, r.text, JNull) >>

C2_Witness ==
    BadBody /\ Exited /\ outcome = "aborted" /\ Len(stdout) = 2 /\ prior.exists

\* C3: whatever the status code, a run whose GET returned a JSON body (and
\* whose line 22 did not raise) executes every statement, prints three
\* times, leaves the body's value in temp.json and ends in success.
C3_StatusCodeIgnored ==
    (Exited /\ ~getFailed /\ Loads(r.text).ok /\ ~ioFault) =>
        /\ outcome = "success"
        /\ events = FullRun
        /\ PrintKinds = << "status_code", "text", "json" >>
        /\ stdout[1].code = r.status_code
        /\ disk.exists
        /\ Loads(disk.data).ok
        /\ Loads(disk.data).val = Loads(r.text).val

C3_Witness ==
    Succeeded /\ r.status_code = 401 /\ Len(stdout) = 3 /\ disk.data # << >>

\* C4: the status code is printed before the raw text, the raw text before
\* the decoded body; temp.json is opened, and so changed, only when all
\* three have been printed, and written only when it has been opened.
C4_FixedOrder ==
    /\ IsPrefix(events, FullRun)
    /\ IsPrefix(PrintKinds, << "status_code", "text", "json" >>)
    /\ f.state # "none" => Len(stdout) = 3
    /\ disk # prior => f.state # "none"
    /\ f.buf # << >> => f.state = "open"

C4_Witness ==
    Succeeded /\ events = FullRun /\ disk # prior

\* C5: after a successful run temp.json decodes to the value the body
\* decodes to, keys in the order of the body, and is laid out with an
\* indentation of 4.
C5_RoundTrip ==
    Succeeded =>
        /\ disk.exists
        /\ Loads(disk.data).ok
        /\ Loads(disk.data).val = Loads(r.text).val
        /\ LayoutOk(disk.data, 1, 0, FALSE)

C5_Witness ==
    Succeeded /\ r.text = BodyKeyOrder /\ disk.data # r.text

\* C6: a successful run that receives the body the successful run before it
\* received leaves temp.json as that run left it.
C6_Idempotent ==
    (Succeeded /\ last.outcome = "success" /\ last.text = r.text) =>
        disk = prior

C6_Witness ==
    /\ Succeeded
    /\ last.outcome = "success"
    /\ last.text = r.text
    /\ disk.data # << >>

\* C7: after a successful run temp.json holds the serialization of this
\* run's body and nothing else, whatever it held, if it existed, before.
C7_Overwritten ==
    Succeeded => disk = [exists |-> TRUE, data |-> Dumps(Json(r), 0)]

C7_Witness ==
    Succeeded /\ prior.exists /\ Len(prior.data) > Len(disk.data)

\* C8: a run sends at most one request, has sent exactly one when it ends,
\* and stops running when the request fails.
C8_OneRequest ==
    /\ requests <= 1
    /\ Exited => requests = 1
    /\ getFailed => phase # "running"

C8_Witness ==
    getFailed /\ outcome = "aborted" /\ requests = 1

\* C9: when the last statement of the script has been executed, the script
\* has closed the file object it opened.
C9_ClosedByTheScript ==
    (phase = "running" /\ pc > Len(Program) /\ f.state # "none") =>
        f.state = "closed"

\* C10: temp.json is empty from the open until line 22 has run; when line 22
\* raises, the run aborts and temp.json is left holding a proper prefix of
\* the text, not what it held before.
C10_TruncatedOnFailure ==
    /\ (f.state = "open" /\ f.buf = << >> /\ ~ioFault) =>
          disk = [exists |-> TRUE, data |-> << >>]
    /\ ioFault =>
          /\ outcome # "success"
          /\ disk.exists
          /\ IsStrictPrefix(disk.data, Dumps(Json(r), 0))
          /\ Exited => outcome = "aborted" /\ f.state = "closed"

C10_Witness ==
    /\ ioFault
    /\ Exited
    /\ prior.exists
    /\ prior.data # << >>
    /\ disk.data # prior.data

=============================================================================
